---- MODULE Spec2Model ----
(***************************************************************************)
(* precip-monitor: the useSites and useWeatherData hooks of src/App.jsx,   *)
(* the Firestore collections "sites" and "observations" they talk to, and  *)
(* the weather API, as one state machine. The hooks are taken as mounted   *)
(* in a component that renders.                                            *)
(*                                                                         *)
(* JavaScript runs each handler to its next await without interleaving, so *)
(* every action below is one such run: from the event that resumes it (a   *)
(* click, a promise settling, a timer expiring) to the next suspension,    *)
(* the React render and the effects that the handler's state updates       *)
(* cause included.                                                         *)
(***************************************************************************)
EXTENDS Integers, Sequences, FiniteSets, TLC

\* ------------------------------------------------------------------ bounds
MaxSites == 2      \* document IDs the store can hand out
MaxLoc == 2        \* distinct (lat, lon) pairs a form can submit
MaxCycles == 2     \* sync cycles started in one run
MaxOps == 1        \* site-store operations issued after the initial load
MaxRejects == 1    \* form submissions that handleSubmit turns down

IDs == 1..MaxSites
Locs == 1..MaxLoc

\* ------------------------------------------------------------- data shapes
\* A site document {id, lat, lon}: the coordinates are one abstract value.
Site(id, loc) == [id |-> id, loc |-> loc]

\* A weatherData / results entry: a key that is absent, a key holding null,
\* or the WeatherRecord object returned by one call of fetchWeatherData.
\* Every call returns a fresh object; the k-th fetch of cycle c at location
\* loc is identified by (c, k, loc).
Absent == [tag |-> "absent", cyc |-> 0, k |-> 0, loc |-> 0]
Null == [tag |-> "null", cyc |-> 0, k |-> 0, loc |-> 0]
fetchWeatherData(c, k, loc) == [tag |-> "rec", cyc |-> c, k |-> k, loc |-> loc]

EmptyObject == [id \in IDs |-> Absent]

\* ---------------------------------------------------------------- SiteForm
\* A text is a sequence of one-character strings. A number is counted in
\* tenths of a degree (45.5 is 455); the texts of this model have at most one
\* digit after the point and no exponent.
NaN == [nan |-> TRUE, v |-> 0]
Num(v) == [nan |-> FALSE, v |-> v]

isNaN(x) == x.nan

\* x >= y and x <= y with a number y: false when x is NaN.
Geq(x, y) == ~x.nan /\ x.v >= y
Leq(x, y) == ~x.nan /\ x.v <= y

DigitChars == <<"0", "1", "2", "3", "4", "5", "6", "7", "8", "9">>
Digits == {DigitChars[d] : d \in 1..10}
DigitValue(ch) == (CHOOSE d \in 1..10 : DigitChars[d] = ch) - 1

\* The places of s that hold something other than a space.
Ink(s) == {k \in 1..Len(s) : s[k] # " "}

\* The first place of s at or after p that holds no character of the set C
\* (Len(s) + 1 when there is none).
SkipAll(s, p, C) ==
    CHOOSE k \in p..(Len(s) + 1) :
        /\ \A j \in p..(k - 1) : s[j] \in C
        /\ k <= Len(s) => s[k] \notin C

\* String.prototype.trim.
trim(s) ==
    IF Ink(s) = {} THEN <<>>
    ELSE SubSeq(s, SkipAll(s, 1, {" "}),
                CHOOSE k \in Ink(s) : \A j \in Ink(s) : j <= k)

UpperOf(ch) ==
    CASE ch = "a" -> "A" [] ch = "n" -> "N" [] ch = "d" -> "D" [] OTHER -> ch

\* String.prototype.toUpperCase.
toUpperCase(s) == [k \in 1..Len(s) |-> UpperOf(s[k])]

\* The number that the digits s[p], ..., s[p + n - 1] write.
RECURSIVE DigitsValue(_, _, _)
DigitsValue(s, p, n) ==
    IF n = 0 THEN 0
    ELSE 10 * DigitsValue(s, p, n - 1) + DigitValue(s[p + n - 1])

\* What parseFloat reads in s: white space up to place a, a sign up to place
\* b, digits up to place c, then a point and digits up to place d; the rest
\* of s is ignored.
ScanFrom(s, a, b, c) ==
    [lead |-> a - 1,
     sign |-> IF b > a THEN s[a] ELSE "",
     int |-> [at |-> b, n |-> c - b],
     pointed |-> c <= Len(s) /\ s[c] = ".",
     frac |-> IF c <= Len(s) /\ s[c] = "."
              THEN [at |-> c + 1, n |-> SkipAll(s, c + 1, Digits) - (c + 1)]
              ELSE [at |-> c, n |-> 0]]

SignedFrom(s, a, b) == ScanFrom(s, a, b, SkipAll(s, b, Digits))

SpacedFrom(s, a) ==
    SignedFrom(s, a, IF a <= Len(s) /\ s[a] \in {"-", "+"} THEN a + 1 ELSE a)

Scan(s) == SpacedFrom(s, SkipAll(s, 1, {" "}))

\* The place after what Scan read.
ScanEnd(sc) == IF sc.pointed THEN sc.frac.at + sc.frac.n ELSE sc.int.at + sc.int.n

\* The number of tenths that a scan writes: NaN when it holds no digit.
Scanned(s, sc) ==
    IF sc.int.n = 0 /\ sc.frac.n = 0 THEN NaN
    ELSE IF sc.sign = "-"
         THEN Num(0 - (10 * DigitsValue(s, sc.int.at, sc.int.n)
                       + (IF sc.frac.n = 0 THEN 0 ELSE DigitValue(s[sc.frac.at]))))
         ELSE Num(10 * DigitsValue(s, sc.int.at, sc.int.n)
                  + (IF sc.frac.n = 0 THEN 0 ELSE DigitValue(s[sc.frac.at])))

\* parseFloat(s).
parseFloat(s) == Scanned(s, Scan(s))

RECURSIVE DigitsOf(_)
DigitsOf(n) ==
    IF n < 10 THEN <<DigitChars[n + 1]>>
    ELSE DigitsOf(n \div 10) \o <<DigitChars[(n % 10) + 1]>>

\* Number.prototype.toString of a number of tenths.
toString(v) ==
    LET m == IF v < 0 THEN 0 - v ELSE v
    IN (IF v < 0 THEN <<"-">> ELSE <<>>)
       \o DigitsOf(m \div 10)
       \o (IF m % 10 # 0 THEN <<".", DigitChars[(m % 10) + 1]>> ELSE <<>>)

\* A scan of the whole of typed as a valid floating-point number: an optional
\* "-", digits, optionally a point and digits, nothing else.
IsValidNumber(typed, sc) ==
    /\ sc.lead = 0
    /\ sc.sign \in {"", "-"}
    /\ ScanEnd(sc) = Len(typed) + 1
    /\ IF sc.pointed THEN sc.frac.n > 0 ELSE sc.int.n > 0

\* <input type="number">, lines 305 and 309: the element's value is what was
\* typed when that is a valid floating-point number, and the empty string
\* when it is not.
NumberInputValue(typed) ==
    IF IsValidNumber(typed, Scan(typed)) THEN typed ELSE <<>>

\* The form's state after the user has typed into its four inputs: name and
\* state are text inputs (lines 296 and 300), lat and lon number inputs.
Fields(typed) ==
    [name |-> typed.name, state |-> typed.state,
     lat |-> NumberInputValue(typed.lat), lon |-> NumberInputValue(typed.lon)]

\* A range test that lets the upper end run one degree over.
InRangeLoose(x, lo, hi) == Geq(x, lo) /\ Leq(x, hi + 10)

\* x >= lo && x <= hi, line 259.
InRange(x, lo, hi) == Geq(x, lo) /\ Leq(x, hi)

\* validCoords, lines 257-259 (the limits in tenths of a degree).
validCoords(f) ==
    LET parsedLat == parseFloat(f.lat)
        parsedLon == parseFloat(f.lon)
    IN /\ ~isNaN(parsedLat) /\ ~isNaN(parsedLon)
       /\ InRange(parsedLat, 0 - 900, 900)
       /\ InRange(parsedLon, 0 - 1800, 1800)

\* canSave, line 260: the empty string is falsy.
canSave(f) == trim(f.name) # <<>> /\ trim(f.state) # <<>> /\ validCoords(f)

\* The object handleSubmit passes to onSave, line 267.
SiteDoc(f) ==
    [name |-> trim(f.name), state |-> toUpperCase(trim(f.state)),
     lat |-> parseFloat(f.lat), lon |-> parseFloat(f.lon)]

NoDoc == [name |-> <<>>, state |-> <<>>, lat |-> NaN, lon |-> NaN]

\* The coordinates that the abstract location values stand for: the corners
\* of the valid range first.
Coordinates(l) ==
    IF l = 1 THEN [lat |-> Num(900), lon |-> Num(0 - 1800)]
    ELSE IF l = 2 THEN [lat |-> Num(0 - 900), lon |-> Num(1800)]
    ELSE [lat |-> Num(5 * l), lon |-> Num(0 - 5 * l)]

\* The location value of a document's coordinates (a pair that stands for no
\* location counts as the first: no such pair is ever submitted).
LocOf(doc) ==
    LET here == {l \in Locs : Coordinates(l) = [lat |-> doc.lat, lon |-> doc.lon]}
    IN IF here = {} THEN 1 ELSE CHOOSE l \in here : TRUE

\* What a user types into the form. For every location: its coordinates as
\* toString writes them (what the edit form opens with, lines 253-254), with
\* a name and a state that need trimming and upper-casing, and with ones that
\* do not. Then the same with one field spoilt.
TypedFor(l) ==
    {[name |-> n, state |-> st,
      lat |-> toString(Coordinates(l).lat.v), lon |-> toString(Coordinates(l).lon.v)] :
         n \in {<<"a">>, <<" ", "a", " ">>}, st \in {<<"N", "D">>, <<"n", "d">>}}

SpoiltNames == {<<>>, <<" ">>}
SpoiltStates == {<<>>, <<" ", " ">>}
SpoiltLats ==
    {<<>>, <<"x">>, <<"9", "x">>, <<"-">>, <<".">>, <<"9", "0", ".", "1">>,
     <<"-", "9", "0", ".", "1">>, <<"9", "1">>}
SpoiltLons ==
    {<<>>, <<"1", "x">>, <<" ", "1">>, <<"1", "8", "0", ".", "1">>,
     <<"-", "1", "8", "0", ".", "1">>, <<"-", "1", "8", "1">>}

Typed ==
    LET good == [name |-> <<"a">>, state |-> <<"N", "D">>,
                 lat |-> toString(Coordinates(1).lat.v),
                 lon |-> toString(Coordinates(1).lon.v)]
    IN UNION {TypedFor(l) : l \in Locs}
       \cup {[good EXCEPT !.name = n] : n \in SpoiltNames}
       \cup {[good EXCEPT !.state = st] : st \in SpoiltStates}
       \cup {[good EXCEPT !.lat = t] : t \in SpoiltLats}
       \cup {[good EXCEPT !.lon = t] : t \in SpoiltLons}

VARIABLES
    mounted,       \* the App component is mounted
    sitesDb,       \* Firestore collection "sites": [id -> loc], 0 = no document
    usedIds,       \* document IDs the store has ever handed out
    observations,  \* Firestore collection "observations"
    ops,           \* site-store requests in flight
    nOps,          \* site-store requests issued so far (after the initial load)
    sites,         \* useSites: sites
    loading,       \* useSites: loading
    error,         \* useSites: error (TRUE: a message is set)
    weatherData,   \* useWeatherData: weatherData
    fetching,      \* useWeatherData: fetching
    lastUpdated,   \* useWeatherData: lastUpdated (0: null, else the setting cycle)
    timers,        \* intervals scheduled with setInterval and not cleared
    nTimers,       \* setInterval calls so far (the interval IDs handed out)
    intervalRef,   \* useWeatherData: intervalRef.current (0: null)
    hasCleanup,    \* the interval effect's last run returned a cleanup
    cycles,        \* every fetchAll call that passed its guard, in start order
    pendingLogs,   \* addDoc calls of logObservation in flight
    rejected,      \* SiteForm submissions that returned at line 264
    filter,        \* App: filter (a state code, or "all")
    sort           \* App: sort

vars == <<mounted, sitesDb, usedIds, observations, ops, nOps, sites, loading,
          error, weatherData, fetching, lastUpdated, timers, nTimers,
          intervalRef, hasCleanup, cycles, pendingLogs, rejected, filter, sort>>

storeVars == <<sitesDb, usedIds, ops, nOps>>
sitesVars == <<sites, loading, error>>
timerVars == <<timers, nTimers, intervalRef, hasCleanup>>
cacheVars == <<weatherData, lastUpdated>>
presentVars == <<filter, sort>>

\* ------------------------------------------------------------ Firestore
NoDocs == [id \in IDs |-> 0]

\* Documents a store may already hold when the page is opened.
InitialDbs ==
    {NoDocs, [id \in IDs |-> IF id = 1 THEN 1 ELSE 0], [id \in IDs |-> 1]}

\* snapshot.docs.map(d => ({id: d.id, ...d.data()})): the documents in
\* document-ID order.
RECURSIVE DocsFrom(_, _)
DocsFrom(db, id) ==
    IF id > MaxSites THEN <<>>
    ELSE IF db[id] = 0 THEN DocsFrom(db, id + 1)
    ELSE <<Site(id, db[id])>> \o DocsFrom(db, id + 1)

loadSites(db) == DocsFrom(db, 1)

\* A request to the site store. data is the object an add or an update was
\* called with, loc its coordinates as a location value.
Op(n, kind, id, data) ==
    [n |-> n, kind |-> kind, id |-> id, data |-> data,
     loc |-> IF data = NoDoc THEN 0 ELSE LocOf(data),
     phase |-> "sent", snap |-> <<>>]

IdsOf(list) == {list[k].id : k \in 1..Len(list)}

\* --------------------------------------------------------- useWeatherData
\* One fetchAll call. i is the loop index (1-based), pc the await the call is
\* suspended at: "fetch" (line 168), "log" (line 170), "delay" (line 175), or
\* "done". results is the call's local object. The remaining fields record
\* what the call did: the site IDs it requested in order, the outcome of each
\* request, the positions whose observation append failed, the delays it
\* started, what started it, and whether its state updates reached a mounted
\* component.
NewCycle(list, trig) ==
    [list |-> list, i |-> 1, pc |-> "fetch", results |-> EmptyObject,
     issued |-> <<list[1].id>>, outcomes |-> <<>>, logFails |-> {},
     nDelays |-> 0, trig |-> trig, merged |-> FALSE]

\* A guard that also returns while a cycle is running.
IsEmptyOrBusy(list) == Len(list) = 0 \/ fetching

\* fetchAll's guard, line 162.
IsEmptyList(list) == Len(list) = 0

\* fetchAll(sitesToFetch), lines 161-168: up to the first await.
fetchAll(list, trig) ==
    IF IsEmptyList(list)
    THEN UNCHANGED <<cycles, fetching>>
    ELSE /\ Len(cycles) < MaxCycles
         /\ cycles' = Append(cycles, NewCycle(list, trig))
         /\ fetching' = IF mounted THEN TRUE ELSE fetching

\* A catch block that records nothing for the failed site.
OnFetchErrorSkip(results, id) == results

\* catch (e) { results[site.id] = null }, lines 171-174.
OnFetchError(results, id) == [results EXCEPT ![id] = Null]

\* logObservation without its try/catch: the rejection reaches fetchAll's
\* catch, which records null.
OnLogErrorNull(results, id) == [results EXCEPT ![id] = Null]

\* logObservation's own catch, lines 105-107: the error is logged and the
\* promise fulfils, so the caller's try block completes and results stays.
OnLogError(results, id) == results

\* logObservation(...) called without await.
NoAwaitLog == FALSE

\* await logObservation(...), line 170: the loop waits for the append.
AwaitsLog == TRUE

\* A delay after every site, the last one included.
NeedsDelayAlways(i, n) == TRUE

\* if (i < sitesToFetch.length - 1), line 175 (i is 1-based here).
NeedsDelay(i, n) == i < n

\* i < sitesToFetch.length, line 165, tested on the incremented index.
LoopContinues(i, n) == i <= n

\* setWeatherData(results): the cache replaced by the cycle's results.
MergeReplace(prev, results) == results

\* setWeatherData(prev => ({...prev, ...results})), line 177.
Merge(prev, results) ==
    [id \in IDs |-> IF results[id] # Absent THEN results[id] ELSE prev[id]]

\* i++ and the loop test, then either the next fetch is issued or the loop
\* is left (lines 165-168).
NextIteration(cyc) ==
    IF LoopContinues(cyc.i + 1, Len(cyc.list))
    THEN [cyc EXCEPT !.i = @ + 1, !.pc = "fetch",
                     !.issued = Append(@, cyc.list[cyc.i + 1].id)]
    ELSE [cyc EXCEPT !.pc = "done"]

\* Line 175, after the try/catch of site i.
AfterSite(cyc) ==
    IF NeedsDelay(cyc.i, Len(cyc.list))
    THEN [cyc EXCEPT !.pc = "delay", !.nDelays = @ + 1]
    ELSE NextIteration(cyc)

\* The state updates of lines 177-179 placed inside the loop body.
LoopLeftOrNot(cyc) == TRUE

\* The for loop of lines 165-176 has been left.
LoopLeft(cyc) == cyc.pc = "done"

\* Cycle c continues as nxt; when nxt has left the loop, lines 177-179 run.
\* React drops the state updates of an unmounted component.
Proceed(c, nxt) ==
    IF LoopLeft(nxt)
    THEN /\ cycles' = [cycles EXCEPT ![c] = [nxt EXCEPT !.merged = mounted]]
         /\ IF mounted
            THEN /\ weatherData' = Merge(weatherData, nxt.results)
                 /\ lastUpdated' = c
                 /\ fetching' = FALSE
            ELSE UNCHANGED <<weatherData, lastUpdated, fetching>>
    ELSE /\ cycles' = [cycles EXCEPT ![c] = nxt]
         /\ UNCHANGED <<weatherData, lastUpdated, fetching>>

PendingLog(c, k, id, w) == [cyc |-> c, k |-> k, siteId |-> id, weather |-> w]

\* The document logObservation adds, lines 100-104 (the timestamp is left out).
Observation(p) == [siteId |-> p.siteId, weather |-> p.weather]

\* A write that keeps one observation per site (setDoc under the site ID).
addObservationPerSite(obs, o) == {x \in obs : x.siteId # o.siteId} \cup {o}

\* addDoc(collection(db, 'observations'), ...) taking effect.
addObservation(obs, o) == obs \cup {o}

\* The weather request of cycle c succeeds: lines 168-170.
FetchResolve(c) ==
    LET cyc == cycles[c]
        site == cyc.list[cyc.i]
        w == fetchWeatherData(c, cyc.i, site.loc)
        got == [cyc EXCEPT !.results[site.id] = w, !.outcomes = Append(@, w)]
    IN /\ cyc.pc = "fetch"
       /\ pendingLogs' = pendingLogs \cup {PendingLog(c, cyc.i, site.id, w)}
       /\ IF AwaitsLog
          THEN /\ cycles' = [cycles EXCEPT ![c] = [got EXCEPT !.pc = "log"]]
               /\ UNCHANGED <<weatherData, lastUpdated, fetching>>
          ELSE Proceed(c, AfterSite(got))
       /\ UNCHANGED <<mounted, rejected, presentVars, storeVars, observations, sitesVars, timerVars>>

\* The weather request of cycle c fails (network error or !res.ok, line 83):
\* lines 171-175.
FetchReject(c) ==
    LET cyc == cycles[c]
        site == cyc.list[cyc.i]
        got == [cyc EXCEPT !.results = OnFetchError(@, site.id),
                           !.outcomes = Append(@, Null)]
    IN /\ cyc.pc = "fetch"
       /\ Proceed(c, AfterSite(got))
       /\ UNCHANGED <<mounted, rejected, presentVars, storeVars, observations, pendingLogs, sitesVars,
                      timerVars>>

\* The loop of cycle p.cyc is suspended on the append p.
Awaited(p) == cycles[p.cyc].pc = "log" /\ cycles[p.cyc].i = p.k

\* An observation append is acknowledged: the document is in the collection
\* and the awaiting loop goes on at line 175.
LogResolve(p) ==
    /\ p \in pendingLogs
    /\ pendingLogs' = pendingLogs \ {p}
    /\ observations' = addObservation(observations, Observation(p))
    /\ IF Awaited(p)
       THEN Proceed(p.cyc, AfterSite(cycles[p.cyc]))
       ELSE UNCHANGED <<cycles, weatherData, lastUpdated, fetching>>
    /\ UNCHANGED <<mounted, rejected, presentVars, storeVars, sitesVars, timerVars>>

\* An observation append fails: lines 105-107, then line 175.
LogReject(p) ==
    LET cyc == cycles[p.cyc]
        got == [cyc EXCEPT !.results = OnLogError(@, p.siteId),
                           !.logFails = @ \cup {p.k}]
    IN /\ p \in pendingLogs
       /\ pendingLogs' = pendingLogs \ {p}
       /\ IF Awaited(p)
          THEN Proceed(p.cyc, AfterSite(got))
          ELSE /\ cycles' = [cycles EXCEPT ![p.cyc].logFails = @ \cup {p.k}]
               /\ UNCHANGED <<weatherData, lastUpdated, fetching>>
       /\ UNCHANGED <<mounted, rejected, presentVars, storeVars, observations, sitesVars, timerVars>>

\* A delay whose promise is never resolved.
DelayNeverElapses(cyc) == FALSE

\* delay(ms), lines 110-112: the timeout resolves the promise cyc awaits.
DelayElapses(cyc) == cyc.pc = "delay"

\* The inter-request delay of cycle c ends and the loop goes to its next
\* iteration.
DelayDone(c) ==
    /\ DelayElapses(cycles[c])
    /\ Proceed(c, NextIteration(cycles[c]))
    /\ UNCHANGED <<mounted, rejected, presentVars, storeVars, observations, pendingLogs, sitesVars,
                   timerVars>>

\* ---------------------------------------------------- effects on sites
\* A cleanup that clears nothing.
clearIntervalNone(ts, id) == ts

\* const REFRESH_INTERVAL = 60 * 60 * 1000, line 36 (milliseconds).
REFRESH_INTERVAL == 3600000

\* clearInterval(id).
clearInterval(ts, id) == {t \in ts : t.tid # id}

\* The interval effect without its empty-list return.
SchedulesAlways(list) == TRUE

\* if (sites.length === 0) return, line 187.
SchedulesTimer(list) == Len(list) # 0

\* The interval effect re-running for a new sites value, lines 186-190: the
\* previous run's cleanup (if it returned one), then the new run.
EffectInterval(list) ==
    LET kept == IF hasCleanup THEN clearInterval(timers, intervalRef) ELSE timers
    IN IF SchedulesTimer(list)
       THEN /\ nTimers' = nTimers + 1
            /\ intervalRef' = nTimers + 1
            /\ timers' = kept \cup {[tid |-> nTimers + 1, list |-> list,
                                      ms |-> REFRESH_INTERVAL]}
            /\ hasCleanup' = TRUE
       ELSE /\ timers' = kept
            /\ hasCleanup' = FALSE
            /\ UNCHANGED <<nTimers, intervalRef>>

\* if (sites.length > 0) fetchAll(sites), line 183.
EffectFetches(list) == Len(list) > 0

\* The fetch effect for a new sites value, lines 182-184.
EffectFetch(list) ==
    IF EffectFetches(list)
    THEN fetchAll(list, "sites")
    ELSE UNCHANGED <<cycles, fetching>>

\* setSites(list) and the render it causes: every setSites call of useSites
\* passes a new array, so both effects of useWeatherData re-run. An
\* unmounted component takes no state update and runs no effect.
setSites(list) ==
    IF mounted
    THEN /\ sites' = list
         /\ EffectFetch(list)
         /\ EffectInterval(list)
    ELSE UNCHANGED <<sites, cycles, fetching, timerVars>>

\* The recurring timer t expires: () => fetchAll(sites), line 188, with the
\* sites of the render that scheduled it.
TimerExpiry(t) ==
    /\ t \in timers
    /\ fetchAll(t.list, "timer")
    /\ UNCHANGED <<mounted, rejected, presentVars, storeVars, observations, pendingLogs, sitesVars,
                   cacheVars, timerVars>>

\* The component unmounts: the cleanup of the interval effect's last run,
\* line 189. Nothing cancels the fetchAll calls in flight.
Unmount ==
    /\ mounted
    /\ mounted' = FALSE
    /\ timers' = IF hasCleanup THEN clearInterval(timers, intervalRef) ELSE timers
    /\ hasCleanup' = FALSE
    /\ UNCHANGED <<rejected, presentVars, storeVars, observations, pendingLogs, sitesVars,
                   cacheVars, fetching, nTimers, intervalRef, cycles>>

\* ---------------------------------------------------------------- useSites
Replace(op, new) == (ops \ {op}) \cup {new}

\* load(), lines 120-124, up to its await: a getDocs request goes out.
load ==
    /\ nOps < MaxOps
    /\ nOps' = nOps + 1
    /\ ops' = ops \cup {Op(nOps + 1, "load", 0, NoDoc)}
    /\ loading' = TRUE
    /\ error' = FALSE

\* The refresh button, line 543: refresh(); reload().
Refresh ==
    /\ mounted
    /\ fetchAll(sites, "refresh")
    /\ load
    /\ UNCHANGED <<mounted, rejected, presentVars, sitesDb, usedIds, observations, pendingLogs, sites,
                   cacheVars, timerVars>>

\* The store answers a getDocs request from the collection as it is now.
LoadRead(op) ==
    /\ op \in ops /\ op.kind = "load" /\ op.phase = "sent"
    /\ ops' = Replace(op, [op EXCEPT !.phase = "applied", !.snap = loadSites(sitesDb)])
    /\ UNCHANGED <<mounted, rejected, presentVars, sitesDb, usedIds, nOps, observations, pendingLogs,
                   sitesVars, cacheVars, fetching, timerVars, cycles>>

\* The answer arrives: setSites(data), then setLoading(false), lines 125-130.
LoadResolve(op) ==
    /\ op \in ops /\ op.kind = "load" /\ op.phase = "applied"
    /\ ops' = ops \ {op}
    /\ setSites(op.snap)
    /\ loading' = IF mounted THEN FALSE ELSE loading
    /\ UNCHANGED <<mounted, rejected, presentVars, sitesDb, usedIds, nOps, observations, pendingLogs,
                   error, cacheVars>>

\* getDocs fails: setError(...), then setLoading(false), lines 126-130.
LoadReject(op) ==
    /\ op \in ops /\ op.kind = "load" /\ op.phase = "sent"
    /\ ops' = ops \ {op}
    /\ error' = IF mounted THEN TRUE ELSE error
    /\ loading' = IF mounted THEN FALSE ELSE loading
    /\ UNCHANGED <<mounted, rejected, presentVars, sitesDb, usedIds, nOps, observations, pendingLogs,
                   sites, cacheVars, fetching, timerVars, cycles>>

\* add(site), lines 136-137, up to its await: an addDoc request goes out.
AddStart(site) ==
    /\ mounted
    /\ nOps < MaxOps
    /\ nOps' = nOps + 1
    /\ ops' = ops \cup {Op(nOps + 1, "add", 0, site)}
    /\ UNCHANGED <<mounted, rejected, presentVars, sitesDb, usedIds, observations, pendingLogs,
                   sitesVars, cacheVars, fetching, timerVars, cycles>>

\* The store creates the document under an ID it never used.
AddApply(op, id) ==
    /\ op \in ops /\ op.kind = "add" /\ op.phase = "sent"
    /\ id \in IDs \ usedIds
    /\ usedIds' = usedIds \cup {id}
    /\ sitesDb' = [sitesDb EXCEPT ![id] = op.loc]
    /\ ops' = Replace(op, [op EXCEPT !.phase = "applied", !.id = id])
    /\ UNCHANGED <<mounted, rejected, presentVars, nOps, observations, pendingLogs, sitesVars,
                   cacheVars, fetching, timerVars, cycles>>

\* setSites(prev => [...prev, newSite]), line 138.
addToList(list, site) == Append(list, site)

AddResolve(op) ==
    /\ op \in ops /\ op.kind = "add" /\ op.phase = "applied"
    /\ ops' = ops \ {op}
    /\ setSites(addToList(sites, Site(op.id, op.loc)))
    /\ UNCHANGED <<mounted, rejected, presentVars, sitesDb, usedIds, nOps, observations, pendingLogs,
                   loading, error, cacheVars>>

\* update(id, data), lines 142-143, up to its await. The edit form is open
\* only for a site of the live list (selectedSite, line 486).
UpdateStart(id, data) ==
    /\ mounted
    /\ id \in IdsOf(sites)
    /\ nOps < MaxOps
    /\ nOps' = nOps + 1
    /\ ops' = ops \cup {Op(nOps + 1, "update", id, data)}
    /\ UNCHANGED <<mounted, rejected, presentVars, sitesDb, usedIds, observations, pendingLogs,
                   sitesVars, cacheVars, fetching, timerVars, cycles>>

\* updateDoc writes the fields of a document that exists.
UpdateApply(op) ==
    /\ op \in ops /\ op.kind = "update" /\ op.phase = "sent"
    /\ sitesDb[op.id] # 0
    /\ sitesDb' = [sitesDb EXCEPT ![op.id] = op.loc]
    /\ ops' = Replace(op, [op EXCEPT !.phase = "applied"])
    /\ UNCHANGED <<mounted, rejected, presentVars, usedIds, nOps, observations, pendingLogs, sitesVars,
                   cacheVars, fetching, timerVars, cycles>>

\* setSites(prev => prev.map(s => s.id === id ? {...s, ...data} : s)), line 144.
updateInList(list, id, loc) ==
    [k \in 1..Len(list) |-> IF list[k].id = id THEN Site(id, loc) ELSE list[k]]

UpdateResolve(op) ==
    /\ op \in ops /\ op.kind = "update" /\ op.phase = "applied"
    /\ ops' = ops \ {op}
    /\ setSites(updateInList(sites, op.id, op.loc))
    /\ UNCHANGED <<mounted, rejected, presentVars, sitesDb, usedIds, nOps, observations, pendingLogs,
                   loading, error, cacheVars>>

\* The states of the form's four fields that typing leads to.
FormStates == {Fields(typed) : typed \in Typed}

\* For every state of the form, what handleSubmit finds in canSave (line 264)
\* and the object it would pass to onSave (line 267).
Submission ==
    [f \in FormStates |->
        [canSave |-> canSave(f),
         site |-> IF canSave(f) THEN SiteDoc(f) ELSE NoDoc]]

\* handleSubmit returning at line 264: nothing is called and no state is set.
Return ==
    /\ rejected < MaxRejects
    /\ rejected' = rejected + 1
    /\ UNCHANGED <<mounted, presentVars, storeVars, observations, pendingLogs, sitesVars,
                   cacheVars, fetching, timerVars, cycles>>

\* SiteForm.handleSubmit, lines 262-273, in the add form (line 660): onSave is
\* handleAdd, which calls add(data).
SubmitAdd(f) ==
    /\ mounted
    /\ IF Submission[f].canSave
       THEN AddStart(Submission[f].site)
       ELSE Return

\* SiteForm.handleSubmit in the edit form of site id (line 664): onSave is
\* handleUpdate, which calls update(selectedId, data).
SubmitEdit(id, f) ==
    /\ mounted
    /\ id \in IdsOf(sites)
    /\ IF Submission[f].canSave
       THEN UpdateStart(id, Submission[f].site)
       ELSE Return

\* remove(id), lines 147-148, up to its await. The delete button belongs to
\* the detail view of a site of the live list.
RemoveStart(id) ==
    /\ mounted
    /\ id \in IdsOf(sites)
    /\ nOps < MaxOps
    /\ nOps' = nOps + 1
    /\ ops' = ops \cup {Op(nOps + 1, "remove", id, NoDoc)}
    /\ UNCHANGED <<mounted, rejected, presentVars, sitesDb, usedIds, observations, pendingLogs,
                   sitesVars, cacheVars, fetching, timerVars, cycles>>

\* deleteDoc(doc(db, 'sites', id)), line 70, taking effect: the document is
\* gone (deleting a missing document succeeds). The observations collection
\* is another collection.
deleteSiteDoc(db, id) == [db EXCEPT ![id] = 0]

RemoveApply(op) ==
    /\ op \in ops /\ op.kind = "remove" /\ op.phase = "sent"
    /\ sitesDb' = deleteSiteDoc(sitesDb, op.id)
    /\ ops' = Replace(op, [op EXCEPT !.phase = "applied"])
    /\ UNCHANGED <<mounted, rejected, presentVars, usedIds, nOps, observations, pendingLogs, sitesVars,
                   cacheVars, fetching, timerVars, cycles>>

\* filter with the test inverted.
removeFromListKeep(list, id) == SelectSeq(list, LAMBDA s : s.id = id)

\* setSites(prev => prev.filter(s => s.id !== id)), line 149.
removeFromList(list, id) == SelectSeq(list, LAMBDA s : s.id # id)

RemoveResolve(op) ==
    /\ op \in ops /\ op.kind = "remove" /\ op.phase = "applied"
    /\ ops' = ops \ {op}
    /\ setSites(removeFromList(sites, op.id))
    /\ UNCHANGED <<mounted, rejected, presentVars, sitesDb, usedIds, nOps, observations, pendingLogs,
                   loading, error, cacheVars>>

\* addDoc, updateDoc or deleteDoc fails: add, update and remove have no catch,
\* the rejection goes to the caller and no state is set.
WriteReject(op) ==
    /\ op \in ops /\ op.kind # "load" /\ op.phase = "sent"
    /\ ops' = ops \ {op}
    /\ UNCHANGED <<mounted, rejected, presentVars, sitesDb, usedIds, nOps, observations, pendingLogs,
                   sitesVars, cacheVars, fetching, timerVars, cycles>>

\* ------------------------------------------------- App: presentation state
\* The filter value 'all', line 484, written as the state codes are.
All == <<"a", "l", "l">>

\* The state code of a site: every site of this model is in ND.
StateOf(site) == <<"N", "D">>

\* states, lines 489-492: 'all' and the state codes of the live list.
states == {All} \cup {StateOf(sites[k]) : k \in 1..Len(sites)}

\* The values of the sort select, lines 583-585.
SortOptions == {"name", "precip", "state"}

\* The filter and sort controls are rendered for a non-empty list, line 565.
ControlsShown == mounted /\ Len(sites) > 0

\* A filter button, line 569: setFilter(st).
SetFilter(st) ==
    /\ ControlsShown
    /\ st \in states
    /\ filter' = st
    /\ UNCHANGED <<mounted, rejected, sort, storeVars, observations, pendingLogs,
                   sitesVars, cacheVars, fetching, timerVars, cycles>>

\* The sort select, line 579: setSort(e.target.value).
SetSort(v) ==
    /\ ControlsShown
    /\ sort' = v
    /\ UNCHANGED <<mounted, rejected, filter, storeVars, observations, pendingLogs,
                   sitesVars, cacheVars, fetching, timerVars, cycles>>

\* ------------------------------------------------------------ the machine
\* The first render and its effects: sites is [] (line 116), so neither
\* effect of useWeatherData does anything, and load() is on its way (line 134).
Init ==
    /\ mounted = TRUE
    /\ sitesDb \in InitialDbs
    /\ usedIds = {id \in IDs : sitesDb[id] # 0}
    /\ observations = {}
    /\ ops = {Op(0, "load", 0, NoDoc)}
    /\ nOps = 0
    /\ sites = <<>>
    /\ loading = TRUE
    /\ error = FALSE
    /\ weatherData = EmptyObject
    /\ fetching = FALSE
    /\ lastUpdated = 0
    /\ timers = {}
    /\ nTimers = 0
    /\ intervalRef = 0
    /\ hasCleanup = FALSE
    /\ cycles = <<>>
    /\ pendingLogs = {}
    /\ rejected = 0
    /\ filter = All
    /\ sort = "name"

Next ==
    \/ \E c \in 1..Len(cycles) : FetchResolve(c)
    \/ \E c \in 1..Len(cycles) : FetchReject(c)
    \/ \E p \in pendingLogs : LogResolve(p)
    \/ \E p \in pendingLogs : LogReject(p)
    \/ \E c \in 1..Len(cycles) : DelayDone(c)
    \/ \E t \in timers : TimerExpiry(t)
    \/ Unmount
    \/ Refresh
    \/ \E op \in ops : LoadRead(op)
    \/ \E op \in ops : LoadResolve(op)
    \/ \E op \in ops : LoadReject(op)
    \/ \E f \in FormStates : SubmitAdd(f)
    \/ \E op \in ops, id \in IDs : AddApply(op, id)
    \/ \E op \in ops : AddResolve(op)
    \/ \E id \in IDs, f \in FormStates : SubmitEdit(id, f)
    \/ \E op \in ops : UpdateApply(op)
    \/ \E op \in ops : UpdateResolve(op)
    \/ \E id \in IDs : RemoveStart(id)
    \/ \E op \in ops : RemoveApply(op)
    \/ \E op \in ops : RemoveResolve(op)
    \/ \E op \in ops : WriteReject(op)

Spec == Init /\ [][Next]_vars

\* What the environment owes a cycle in flight: its weather request settles,
\* its observation append settles, its delay timeout fires.
SettleFetch(c) == c \in 1..Len(cycles) /\ (FetchResolve(c) \/ FetchReject(c))
SettleLog(c) == \E p \in pendingLogs : p.cyc = c /\ (LogResolve(p) \/ LogReject(p))
EndDelay(c) == c \in 1..Len(cycles) /\ DelayDone(c)

Fairness ==
    \A c \in 1..MaxCycles :
        /\ WF_vars(SettleFetch(c))
        /\ WF_vars(SettleLog(c))
        /\ WF_vars(EndDelay(c))

FairSpec == Init /\ [][Next]_vars /\ Fairness

\* The hooks together with the list controls of App.
NextApp ==
    \/ Next
    \/ \E st \in {All, <<"N", "D">>} : SetFilter(st)
    \/ \E v \in SortOptions : SetSort(v)

AppSpec == Init /\ [][NextApp]_vars

\* ------------------------------------------------------------- properties
Cycles == 1..Len(cycles)

\* Cycle c leaves its loop in this step (lines 177-179 run).
Finishes(c) == cycles[c].pc # "done" /\ cycles'[c].pc = "done"

\* The positions of list that hold site id.
PositionsOf(list, id) == {k \in 1..Len(list) : list[k].id = id}

Max(S) == CHOOSE x \in S : \A y \in S : y <= x

\* C1: one sync cycle issues its fetches one per site of its list, in list
\* order; the fetch for site k+1 is issued only when the fetch for site k has
\* settled (so at most one fetch of the cycle is in flight); a delay is
\* started between consecutive sites only; a finished cycle of N sites has
\* issued exactly N fetches and waited exactly N-1 delays, whatever failed.
C1_SequentialFetches ==
    \A c \in Cycles :
        LET cyc == cycles[c]
            n == Len(cyc.list)
        IN /\ n > 0
           /\ cyc.i \in 1..n
           /\ Len(cyc.issued) = cyc.i
           /\ \A k \in 1..cyc.i : cyc.issued[k] = cyc.list[k].id
           /\ Len(cyc.outcomes) = IF cyc.pc = "fetch" THEN cyc.i - 1 ELSE cyc.i
           /\ cyc.nDelays = IF cyc.pc = "delay" THEN cyc.i ELSE cyc.i - 1
           /\ cyc.pc = "done" =>
                  /\ Len(cyc.issued) = n
                  /\ Len(cyc.outcomes) = n
                  /\ cyc.nDelays = n - 1

\* A finished cycle of two sites whose first fetch failed and whose second
\* succeeded.
C1_Witness ==
    \E c \in Cycles :
        /\ cycles[c].pc = "done"
        /\ Len(cycles[c].list) = 2
        /\ cycles[c].outcomes[1] = Null
        /\ cycles[c].outcomes[2].tag = "rec"
        /\ cycles[c].nDelays = 1

\* The outcome of cycle cyc's fetch for site id (of its last fetch for id,
\* should its list name id more than once).
OutcomeFor(cyc, id) == cyc.outcomes[Max(PositionsOf(cyc.list, id))]

\* C2: when a cycle's merge runs, the cache entry of every site of the cycle
\* is the outcome of the cycle's fetch for it: null (key present) when the
\* fetch failed, the record that very fetch returned when it succeeded; and
\* the cycle completes whatever failed: lastUpdated is set, fetching is
\* false.
C2_FailedSiteIsNull ==
    [][\A c \in Cycles :
          (Finishes(c) /\ mounted) =>
              /\ \A id \in IdsOf(cycles[c].list) :
                    /\ weatherData'[id] = OutcomeFor(cycles'[c], id)
                    /\ weatherData'[id] # Absent
                    /\ OutcomeFor(cycles'[c], id) # Null =>
                           \E k \in PositionsOf(cycles[c].list, id) :
                               weatherData'[id] =
                                   fetchWeatherData(c, k, cycles[c].list[k].loc)
              /\ lastUpdated' = c
              /\ fetching' = FALSE]_vars

\* A merged cycle of two sites, one failed and one fetched: the cache holds
\* null for the first and the fetched record for the second.
C2_Witness ==
    \E c \in Cycles :
        LET cyc == cycles[c] IN
        /\ cyc.pc = "done" /\ cyc.merged
        /\ Len(cyc.list) = 2
        /\ cyc.list[1].id # cyc.list[2].id
        /\ cyc.outcomes[1].tag = "rec"
        /\ cyc.outcomes[2] = Null
        /\ weatherData[cyc.list[1].id] = cyc.outcomes[1]
        /\ weatherData[cyc.list[2].id] = Null
        /\ lastUpdated = c
        /\ ~fetching

\* C3: the cache changes only when a cycle merges; the merge sets the keys of
\* the cycle's site list to the cycle's results and leaves every other key as
\* it was; no step removes a key from the cache.
C3_MergeFrame ==
    [][/\ \A id \in IDs : weatherData[id] # Absent => weatherData'[id] # Absent
       /\ weatherData' # weatherData => \E c \in Cycles : Finishes(c) /\ mounted
       /\ \A c \in Cycles :
             (Finishes(c) /\ mounted) =>
                 \A id \in IDs :
                     weatherData'[id] =
                         IF id \in IdsOf(cycles[c].list)
                         THEN cycles'[c].results[id]
                         ELSE weatherData[id]]_vars

\* A cycle on a list without site 1 has merged, site 1 is deleted from the
\* store and from the live list, and the cache still holds site 1's record.
C3_Witness ==
    /\ mounted
    /\ sitesDb[1] = 0
    /\ 1 \notin IdsOf(sites)
    /\ weatherData[1].tag = "rec"
    /\ \E c \in Cycles :
          /\ cycles[c].pc = "done" /\ cycles[c].merged
          /\ 1 \notin IdsOf(cycles[c].list)
          /\ lastUpdated = c

\* C4: with every weather request, observation append and delay settling,
\* every cycle that starts leaves its loop, its merge applied to the mounted
\* component, however many of its fetches fail.
C4_CycleReturnsToIdle ==
    \A c \in 1..MaxCycles :
        (c \in Cycles) ~>
            (c \in Cycles /\ cycles[c].pc = "done" /\ (cycles[c].merged \/ ~mounted))

\* A merged cycle of two sites both of whose fetches failed.
C4_Witness ==
    \E c \in Cycles :
        /\ cycles[c].pc = "done" /\ cycles[c].merged
        /\ Len(cycles[c].list) = 2
        /\ \A k \in 1..2 : cycles[c].outcomes[k] = Null
        /\ ~fetching
        /\ lastUpdated = c

\* The weather request of cycle c succeeds in this step.
FetchSucceeds(c) ==
    /\ cycles[c].pc = "fetch"
    /\ Len(cycles'[c].outcomes) = Len(cycles[c].outcomes) + 1
    /\ cycles'[c].outcomes[Len(cycles'[c].outcomes)].tag = "rec"

AppendFails(p) ==
    p \in pendingLogs /\ p \notin pendingLogs' /\ observations' = observations

\* C6: when the append of a fetched record fails, the cycle's result for the
\* site stays that record, the loop goes on (to the delay before the next
\* site, or to its merge, which stores the record), and a finished cycle has
\* fetched every site after a failed append.
C6_AppendFailureContained ==
    /\ [][\A p \in pendingLogs :
             AppendFails(p) =>
                 LET c == p.cyc
                     n == Len(cycles[c].list)
                 IN /\ p.weather.tag = "rec"
                    /\ cycles'[c].results[p.siteId] = p.weather
                    /\ cycles'[c].pc = IF p.k < n THEN "delay" ELSE "done"
                    /\ (p.k = n /\ mounted) =>
                           /\ weatherData'[p.siteId] = p.weather
                           /\ fetching' = FALSE
                           /\ lastUpdated' = c]_vars
    /\ [](\A c \in Cycles :
             (cycles[c].pc = "done" /\ cycles[c].logFails # {}) =>
                 /\ Len(cycles[c].issued) = Len(cycles[c].list)
                 /\ cycles[c].merged \/ ~mounted)

\* A merged cycle of two sites: the append for the first failed, the second
\* was fetched all the same, and the cache holds the first site's record.
C6_Witness ==
    \E c \in Cycles :
        LET cyc == cycles[c] IN
        /\ cyc.pc = "done" /\ cyc.merged
        /\ Len(cyc.list) = 2
        /\ cyc.list[1].id # cyc.list[2].id
        /\ 1 \in cyc.logFails
        /\ cyc.outcomes[1].tag = "rec"
        /\ weatherData[cyc.list[1].id] = cyc.outcomes[1]
        /\ Len(cyc.outcomes) = 2

\* Per site: the fetches that succeeded, the appends that failed, the
\* appends in flight, the observations in the collection.
SuccessfulFetches(id) ==
    Cardinality({ck \in Cycles \X (1..MaxSites + MaxOps) :
                    /\ ck[2] <= Len(cycles[ck[1]].outcomes)
                    /\ cycles[ck[1]].list[ck[2]].id = id
                    /\ cycles[ck[1]].outcomes[ck[2]].tag = "rec"})
FailedAppends(id) ==
    Cardinality({ck \in Cycles \X (1..MaxSites + MaxOps) :
                    /\ ck[2] \in cycles[ck[1]].logFails
                    /\ cycles[ck[1]].list[ck[2]].id = id})
PendingAppends(id) == Cardinality({p \in pendingLogs : p.siteId = id})
ObservationsOf(id) == Cardinality({o \in observations : o.siteId = id})

Quiescent == pendingLogs = {} /\ \A c \in Cycles : cycles[c].pc = "done"

\* C7 as stated: once the cycles have run, a site has as many observations as
\* successful fetches.
C7_OnePerSuccessfulFetch ==
    Quiescent => \A id \in IDs : ObservationsOf(id) = SuccessfulFetches(id)

\* C7 amended: every successful fetch attempts one append, which is not
\* retried when it fails: a site has as many observations as successful
\* fetches whose append succeeded; every observation is the record of a
\* successful fetch for its site; no step changes or removes an observation.
C7_AtMostOnePerSuccessfulFetch ==
    /\ [](/\ \A id \in IDs :
               ObservationsOf(id) =
                   SuccessfulFetches(id) - FailedAppends(id) - PendingAppends(id)
          /\ \A o \in observations :
               \E c \in Cycles :
                   \E k \in 1..Len(cycles[c].outcomes) :
                       /\ o.weather = cycles[c].outcomes[k]
                       /\ o.weather.tag = "rec"
                       /\ o.siteId = cycles[c].list[k].id)
    /\ [][observations \subseteq observations']_vars

\* Two fetches for one site succeeded, one append failed, one observation is
\* in the collection.
C7_Witness ==
    /\ Quiescent
    /\ \E id \in IDs :
          /\ SuccessfulFetches(id) = 2
          /\ FailedAppends(id) = 1
          /\ ObservationsOf(id) = 1

\* A setSites call of useSites reaches the mounted component in this step (the
\* store's answer to a request is taken).
SitesSet == mounted /\ \E op \in ops : op.phase = "applied" /\ op \notin ops'

CycleStarts == Len(cycles') > Len(cycles)
Started == cycles'[Len(cycles')]

\* C8: each new site list starts exactly one cycle, on that list, when it is
\* non-empty and none when it is empty; while mounted, an interval is
\* scheduled exactly when the list is non-empty, and it is the one-hour
\* interval of the current list, so each expiry starts a cycle on it; a cycle started by the
\* list effect or the timer starts on a non-empty live list.
C8_Triggers ==
    /\ [](mounted =>
             timers = IF Len(sites) > 0
                      THEN {[tid |-> intervalRef, list |-> sites,
                             ms |-> 60 * 60 * 1000]}
                      ELSE {})
    /\ [][/\ SitesSet =>
                IF Len(sites') > 0
                THEN /\ Len(cycles') = Len(cycles) + 1
                     /\ Started = NewCycle(sites', "sites")
                ELSE cycles' = cycles
          /\ CycleStarts =>
                /\ Len(cycles') = Len(cycles) + 1
                /\ Started.list = sites'
                /\ Len(sites') > 0
                /\ Started.trig = "sites" => SitesSet
                /\ Started.trig = "timer" =>
                       /\ sites' = sites
                       /\ \E t \in timers :
                              t.tid = intervalRef /\ t.list = Started.list
                /\ Started.trig \in {"sites", "timer", "refresh"}]_vars

\* The list effect has started one cycle and the timer another.
C8_Witness ==
    /\ mounted
    /\ timers # {}
    /\ \E c1, c2 \in Cycles :
          /\ cycles[c1].trig = "sites"
          /\ cycles[c2].trig = "timer"
          /\ cycles[c2].list = sites

\* C9: after the component unmounts no interval is scheduled and no cycle
\* starts; the unmount leaves the cycles and appends in flight as they are,
\* and every unfinished cycle can still take its next step.
C9_Teardown ==
    /\ [](~mounted => timers = {})
    /\ [](~mounted =>
             \A c \in Cycles :
                 cycles[c].pc # "done" =>
                     ENABLED (SettleFetch(c) \/ SettleLog(c) \/ EndDelay(c)))
    /\ [][/\ ~mounted => Len(cycles') = Len(cycles)
          /\ (mounted /\ ~mounted') =>
                (cycles' = cycles /\ pendingLogs' = pendingLogs)]_vars

\* Unmounted after an interval was scheduled, and a cycle that was in flight
\* at the unmount has finished.
C9_Witness ==
    /\ ~mounted
    /\ nTimers > 0
    /\ \E c \in Cycles : cycles[c].pc = "done" /\ ~cycles[c].merged

\* C10: the store's delete removes the document of that ID and nothing else;
\* the answer removes the entries of that ID from the live list and leaves
\* the other entries, and their order, as they were; neither step touches
\* the observations collection.
C10_DeleteFrame ==
    [][\A op \in ops :
          op.kind = "remove" =>
              /\ (op.phase = "sent" /\ [op EXCEPT !.phase = "applied"] \in ops') =>
                     /\ sitesDb' = [id \in IDs |-> IF id = op.id THEN 0 ELSE sitesDb[id]]
                     /\ sites' = sites
                     /\ observations' = observations
              /\ (op.phase = "applied" /\ op \notin ops' /\ mounted) =>
                     /\ sites' = SelectSeq(sites, LAMBDA s : s.id # op.id)
                     /\ sitesDb' = sitesDb
                     /\ observations' = observations]_vars

\* Site 1 is deleted from the store and the live list, site 2 is in both, and
\* an observation of site 1 is still in the collection.
C10_Witness ==
    /\ mounted
    /\ ops = {}
    /\ sitesDb[1] = 0 /\ sitesDb[2] # 0
    /\ IdsOf(sites) = {2}
    /\ \E o \in observations : o.siteId = 1

\* The text has a character that is not a space.
HasInk(s) == \E k \in 1..Len(s) : s[k] # " "

\* The text is the decimal writing of a number (of tenths) from lo to hi.
WritesNumberIn(s, lo, hi) == \E v \in lo..hi : toString(v) = s

\* A form that the claim lets through: a name, a state, a latitude in
\* [-90, 90] and a longitude in [-180, 180].
Admissible(f) ==
    /\ HasInk(f.name)
    /\ HasInk(f.state)
    /\ WritesNumberIn(f.lat, 0 - 900, 900)
    /\ WritesNumberIn(f.lon, 0 - 1800, 1800)

Inadmissible == {f \in FormStates : ~Admissible(f)}

\* A site object with a trimmed non-empty name, a non-empty state without a
\* lower-case letter, a latitude in [-90, 90] and a longitude in [-180, 180].
ValidSite(d) ==
    /\ d.name # <<>> /\ d.name[1] # " " /\ d.name[Len(d.name)] # " "
    /\ d.state # <<>> /\ \A k \in 1..Len(d.state) : d.state[k] \notin {"a", "n", "d"}
    /\ ~d.lat.nan /\ d.lat.v >= 0 - 900 /\ d.lat.v <= 900
    /\ ~d.lon.nan /\ d.lon.v >= 0 - 1800 /\ d.lon.v <= 1800

\* C11: every add or update request that reaches the store carries a site
\* with a trimmed non-empty name, a non-empty upper-case state, a latitude in
\* [-90, 90] and a longitude in [-180, 180]; submitting a form with an empty
\* name or state or a non-numeric or out-of-range coordinate can only return
\* without calling the store; and such a return leaves the requests in
\* flight, the sites collection and the live list as they were.
C11_FormValidation ==
    /\ [](\A op \in ops : op.kind \in {"add", "update"} => ValidSite(op.data))
    /\ [](\A f \in Inadmissible :
             ~ENABLED /\ SubmitAdd(f) \/ \E id \in IDs : SubmitEdit(id, f)
                      /\ rejected' = rejected)
    /\ [][rejected' # rejected =>
             UNCHANGED <<ops, nOps, sitesDb, usedIds, sites>>]_vars

\* A form was turned down, and an update typed with spaces around the name
\* and a lower-case state is on its way with the name trimmed, the state in
\* upper case and the south-east corner of the range as coordinates.
C11_Witness ==
    /\ rejected > 0
    /\ \E op \in ops :
          /\ op.kind = "update"
          /\ op.data = [name |-> <<"a">>, state |-> <<"N", "D">>,
                        lat |-> Num(0 - 900), lon |-> Num(1800)]

\* The cycles in flight: started and not yet through their merge.
InFlight == {c \in Cycles : cycles[c].pc # "done"}

\* The live list that the answer to the request op sets.
AnswerList(op) ==
    CASE op.kind = "load" -> op.snap
      [] op.kind = "add" -> Append(sites, Site(op.id, op.loc))
      [] op.kind = "update" ->
            [k \in 1..Len(sites) |->
                IF sites[k].id = op.id THEN Site(op.id, op.loc) ELSE sites[k]]
      [] op.kind = "remove" -> SelectSeq(sites, LAMBDA x : x.id # op.id)

\* C12: while a cycle is in flight nothing holds back another one: a timer
\* expiry, a refresh click on a non-empty list and a store answer that sets a
\* non-empty list each start a further cycle (as long as the model's bound on
\* cycles allows one); a starting cycle leaves the cycles in flight as they
\* are; a cycle's step changes no other cycle's results; and a cycle that
\* finishes merges its own results into the cache.
C12_ConcurrentCycles ==
    /\ []((mounted /\ InFlight # {} /\ Len(cycles) < MaxCycles) =>
             /\ \A t \in timers : ENABLED (TimerExpiry(t) /\ CycleStarts)
             /\ (nOps < MaxOps /\ Len(sites) > 0) => ENABLED (Refresh /\ CycleStarts)
             /\ \A op \in ops :
                   (op.phase = "applied" /\ Len(AnswerList(op)) > 0) =>
                       ENABLED /\ \/ LoadResolve(op) \/ AddResolve(op)
                                  \/ UpdateResolve(op) \/ RemoveResolve(op)
                               /\ CycleStarts)
    /\ [][/\ CycleStarts => \A c \in Cycles : cycles'[c] = cycles[c]
          /\ \A c \in Cycles :
                /\ cycles'[c] # cycles[c] =>
                       \A d \in Cycles \ {c} : cycles'[d] = cycles[d]
                /\ (Finishes(c) /\ mounted) =>
                       weatherData' =
                           [id \in IDs |->
                               IF cycles'[c].results[id] # Absent
                               THEN cycles'[c].results[id]
                               ELSE weatherData[id]]]_vars

\* Two cycles are in flight, each with a weather request out: the one the
\* first list started and one a timer expiry started.
C12_Witness ==
    \E c1, c2 \in InFlight :
        /\ c1 < c2
        /\ cycles[c1].pc = "fetch" /\ cycles[c2].pc = "fetch"
        /\ cycles[c1].trig = "sites" /\ cycles[c2].trig = "timer"

\* C13: the cache changes only in the step in which a cycle leaves its loop
\* on a mounted component. A cycle that starts, and every step of a cycle
\* before its last, leaves the cache as it is (what it fetched is in its own
\* results); so does every step of a load, an add, an update or a delete
\* (request sent, applied, answered or failed), every turned-down form, and
\* every use of the filter and sort controls.
C13_CacheOnlyAtMerge ==
    [][/\ weatherData' # weatherData =>
              /\ mounted
              /\ \E c \in Cycles : Finishes(c) /\ cycles'[c].merged
       /\ CycleStarts => weatherData' = weatherData
       /\ \A c \in Cycles :
             (cycles'[c] # cycles[c] /\ ~Finishes(c)) => weatherData' = weatherData
       /\ (\/ ops' # ops \/ sitesDb' # sitesDb
           \/ sites' # sites \/ loading' # loading \/ error' # error) =>
              weatherData' = weatherData
       /\ (rejected' # rejected \/ filter' # filter \/ sort' # sort) =>
              weatherData' = weatherData]_vars

\* A cycle in flight holds a fetched record for a site the cache has no entry
\* for, after a site operation has run to its end, a form was turned down,
\* and the list was filtered and sorted by precipitation.
C13_Witness ==
    /\ sort = "precip"
    /\ filter # All
    /\ rejected > 0
    /\ nOps = MaxOps /\ ops = {}
    /\ \E c \in InFlight :
          \E id \in IDs :
              /\ cycles[c].results[id].tag = "rec"
              /\ weatherData[id] = Absent

\* C14: fetching is true in every state in which a cycle is in flight.
C14_FetchingWhileInFlight == InFlight # {} => fetching

\* The cycles whose list holds site id.
CyclesWith(id) == {c \in Cycles : id \in IdsOf(cycles[c].list)}

\* C15: once no cycle is in flight, the cache entry of every site of the live
\* list is an outcome of the last-started cycle that fetched the site, and a
\* record in it was fetched at the site's current coordinates.
C15_LatestCycleWins ==
    (mounted /\ InFlight = {}) =>
        \A k \in 1..Len(sites) :
            LET id == sites[k].id
            IN CyclesWith(id) # {} =>
                   LET cyc == cycles[Max(CyclesWith(id))]
                   IN /\ \E j \in PositionsOf(cyc.list, id) :
                             weatherData[id] = cyc.outcomes[j]
                      /\ weatherData[id].tag = "rec" =>
                             weatherData[id].loc = sites[k].loc

\* The documents of the sites collection, and the entries of the live list.
StoredSites == {Site(id, sitesDb[id]) : id \in {x \in IDs : sitesDb[x] # 0}}
LiveSites == {sites[k] : k \in 1..Len(sites)}

\* C16: when no request to the site store is in flight and the last load did
\* not fail, the live list holds the documents of the sites collection, with
\* their IDs and field values, and nothing else.
C16_LiveListIsStore ==
    (mounted /\ ops = {} /\ ~error) => LiveSites = StoredSites

====
